---------------------------- MODULE Spec2Model ----------------------------
(***************************************************************************)
(* Two leaf widgets of Frescobaldi:                                        *)
(*   - widgets/charmap.py  CharMap, the glyph picker                       *)
(*   - svgview/view.py     View and JSLink, the SVG viewer and its         *)
(*                         JavaScript bridge                               *)
(* Each widget is a state machine of its own (SpecCharMap, SpecView); the  *)
(* variables of the other widget stay at their initial values.             *)
(***************************************************************************)
EXTENDS Integers, Sequences, FiniteSets

(***************************************************************************)
(* Bounds of the model.                                                    *)
(***************************************************************************)
\* code points 0..MaxCode are used as range ends and as select() arguments
MaxCode == 2
\* pointer x coordinates are PixStep * k - 1 and PixStep * k for k in 0..MaxPixStep
MaxPixStep == 2
\* at most MaxDocs documents are open at a time
MaxDocs == 2

(***************************************************************************)
(* CharMap: program constants.                                             *)
(***************************************************************************)
\* the "no character" value of _selected and of charcodeAt
NoChar == -1
\* CharMap.__init__: self._column_count = 32
InitColumnCount == 32
\* smallest cell size: max(24, ...) in setDisplayFontSize, and the initial _square
MinSquare == 24
\* distance between the sampled pointer coordinates: the smallest cell
PixStep == MinSquare

VARIABLES
    \* ---- CharMap ----
    range,          \* self._range, <<first, last>>
    selected,       \* self._selected
    column_count,   \* self._column_count
    square,         \* self._square
    op,             \* the last CharMap operation and its arguments
    prior,          \* self._selected when that operation began
    emitted,        \* the signals that operation emitted, in order
    raised,         \* TRUE when that operation ended in a Python exception
    \* ---- View and its host ----
    documents,      \* app.documents, the open documents in order
    current,        \* mainwindow.currentDocument(); its view is currentView()
    highlighted,    \* the documents whose view carries the viewer's highlight
    textCursor,     \* the cursor last given to mainwindow.setTextCursor
    url,            \* View.url(), the location shown
    requested,      \* the location of the load in progress, or Idle
    vop,            \* the last View/JSLink operation and its arguments
    fx,             \* the calls that operation made on its collaborators
    result,         \* what doTextEdit / dragElement returned in it
    failed          \* TRUE when that operation ended in a Python exception

cmVars == <<range, selected, column_count, square, op, prior, emitted, raised>>

hostVars == <<documents, current, highlighted, textCursor>>

viewVars ==
    <<documents, current, highlighted, textCursor, url, requested, vop, fx,
      result, failed>>

vars == <<cmVars, viewVars>>

(***************************************************************************)
(* CharMap: inputs.                                                        *)
(***************************************************************************)
\* the range of the spec's scenario, A..Z
ScenarioRange == <<65, 90>>

Codes == 0..MaxCode

\* arguments of setRange: every non-empty range of small codes, one empty
\* range (first > last) and the scenario's range
Ranges ==
    {r \in Codes \X Codes : r[1] <= r[2]} \cup {<<MaxCode, 0>>, ScenarioRange}

\* arguments of select: codes below, inside and above the small ranges, and
\* two of the scenario's range
SelectArgs == (-1..(MaxCode + 1)) \cup {65, 66}

\* arguments of setColumnCount
ColumnArgs == {-1, 0, 1, 2, InitColumnCount}

\* QFontMetrics(self._font).xHeight() for the font sizes tried: the metrics
\* are the toolkit's, so any of these may come back
XHeights == {5, 12}
FontSizes == {10}

XCoords == UNION {{PixStep * k - 1, PixStep * k} : k \in 0..MaxPixStep}
\* y coordinates: above the widget, in the first row and in the second row
YCoords == {-1, 0, PixStep - 1, PixStep}

Buttons == {"LeftButton", "RightButton", "MidButton"}

Max(a, b) == IF a >= b THEN a ELSE b

(***************************************************************************)
(* CharMap: the operations.                                                *)
(***************************************************************************)
Signal(name, charcode) == [signal |-> name, charcode |-> charcode]

\* unichr(i) raises ValueError unless 0 <= i (< 0x110000, far above the
\* codes of this model)
UnichrOk(i) == i >= 0

InRange(rng, charcode) == rng[1] <= charcode /\ charcode <= rng[2]

\* CharMap.select, lines 67-68: a charcode outside the range becomes -1
NormalizeKeep(rng, charcode) == charcode

Normalize(rng, charcode) ==
    IF InRange(rng, charcode) THEN charcode ELSE NoChar

\* CharMap.select on the int charcode (ord() has been applied to a str).
\* The result: the new _selected, the signals emitted, and whether the call
\* raised.  _selected is assigned before unichr(charcode) is evaluated, so
\* a change to -1 is stored and then unichr(-1) raises ValueError.
Select(rng, sel, charcode) ==
    LET c == Normalize(rng, charcode)
    IN  IF sel # c
        THEN IF UnichrOk(c)
             THEN [selected |-> c,
                   emitted  |-> <<Signal("characterSelected", c)>>,
                   raised   |-> FALSE]
             ELSE [selected |-> c, emitted |-> <<>>, raised |-> TRUE]
        ELSE [selected |-> sel, emitted |-> <<>>, raised |-> FALSE]

\* CharMap.charcodeAt: // is Python's floor division, as \div is for a
\* positive divisor
CharcodeAt(rng, cols, sq, x, y) ==
    LET row == y \div sq
        col == x \div sq
        charcode == rng[1] + row * cols + col
    IN  IF col <= cols /\ charcode <= rng[2] THEN charcode ELSE NoChar

\* CharMap.charcodeRect: the cell of charcode, <<left, top, width, height>>
CharcodeRect(rng, cols, sq, charcode) ==
    LET row == (charcode - rng[1]) \div cols
        col == (charcode - rng[1]) % cols
    IN  <<col * sq, row * sq, sq, sq>>

\* CharMap.mousePressEvent, line 162: the buttons that emit characterClicked
EmitsClickedLeftOnly(button) == button = "LeftButton"

EmitsClicked(button) == button # "RightButton"

\* CharMap.mousePressEvent
MousePress(rng, sel, cols, sq, x, y, button) ==
    LET charcode == CharcodeAt(rng, cols, sq, x, y)
        s == Select(rng, sel, charcode)
    IN  IF charcode = NoChar
        THEN [selected |-> sel, emitted |-> <<>>, raised |-> FALSE]
        ELSE IF s.raised \/ ~EmitsClicked(button)
        THEN s
        ELSE IF UnichrOk(charcode)
        THEN [s EXCEPT !.emitted =
                 Append(@, Signal("characterClicked", charcode))]
        ELSE [s EXCEPT !.raised = TRUE]

\* CharMap.setColumnCount: the count stored
ClampColumnsZero(count) == Max(0, count)

ClampColumns(count) == Max(1, count)

\* CharMap.setDisplayFontSize: the cell size for the font's x-height
SquareFor(xHeight) == Max(MinSquare, xHeight * 3)

CMInit ==
    /\ range = <<0, 0>>
    /\ selected = NoChar
    /\ column_count = InitColumnCount
    /\ square = MinSquare
    /\ op = [kind |-> "init"]
    /\ prior = NoChar
    /\ emitted = <<>>
    /\ raised = FALSE

setRange ==
    \E r \in Ranges :
        /\ UNCHANGED viewVars
        /\ range' = r
        /\ selected' = NoChar
        /\ op' = [kind |-> "setRange", first |-> r[1], last |-> r[2]]
        /\ prior' = selected
        /\ emitted' = <<>>
        /\ raised' = FALSE
        /\ UNCHANGED <<column_count, square>>

\* select(charcode) with an int, or with the one-character string of that
\* code point, which ord() turns into the int
select ==
    \E c \in SelectArgs, isStr \in BOOLEAN :
        /\ UNCHANGED viewVars
        /\ isStr => UnichrOk(c)
        /\ LET s == Select(range, selected, c)
           IN  /\ selected' = s.selected
               /\ emitted' = s.emitted
               /\ raised' = s.raised
        /\ op' = [kind |-> "select", charcode |-> c, isStr |-> isStr]
        /\ prior' = selected
        /\ UNCHANGED <<range, column_count, square>>

setDisplayFont ==
    /\ UNCHANGED viewVars
    /\ op' = [kind |-> "setDisplayFont"]
    /\ prior' = selected
    /\ emitted' = <<>>
    /\ raised' = FALSE
    /\ UNCHANGED <<range, selected, column_count, square>>

setDisplayFontSize ==
    \E size \in FontSizes, xh \in XHeights :
        /\ UNCHANGED viewVars
        /\ square' = SquareFor(xh)
        /\ op' = [kind |-> "setDisplayFontSize", size |-> size]
        /\ prior' = selected
        /\ emitted' = <<>>
        /\ raised' = FALSE
        /\ UNCHANGED <<range, selected, column_count>>

setColumnCount ==
    \E n \in ColumnArgs :
        /\ UNCHANGED viewVars
        /\ column_count' = ClampColumns(n)
        /\ op' = [kind |-> "setColumnCount", count |-> n]
        /\ prior' = selected
        /\ emitted' = <<>>
        /\ raised' = FALSE
        /\ UNCHANGED <<range, selected, square>>

mousePressEvent ==
    \E x \in XCoords, y \in YCoords, b \in Buttons :
        /\ UNCHANGED viewVars
        /\ LET m == MousePress(range, selected, column_count, square, x, y, b)
           IN  /\ selected' = m.selected
               /\ emitted' = m.emitted
               /\ raised' = m.raised
        /\ op' = [kind |-> "click", x |-> x, y |-> y, button |-> b]
        /\ prior' = selected
        /\ UNCHANGED <<range, column_count, square>>

CMNext ==
    \/ setRange
    \/ select
    \/ setDisplayFont
    \/ setDisplayFontSize
    \/ setColumnCount
    \/ mousePressEvent

(***************************************************************************)
(* CharMap: the properties.                                                *)
(***************************************************************************)
Selected(c) == Signal("characterSelected", c)
Clicked(c) == Signal("characterClicked", c)

\* the pixel (x, y) lies in the rectangle rect
Contains(rect, x, y) ==
    /\ rect[1] <= x /\ x < rect[1] + rect[3]
    /\ rect[2] <= y /\ y < rect[2] + rect[4]

\* the pixel (x, y) lies in the cell of a code point of the range
InSomeCell(x, y) ==
    \E c \in range[1]..range[2] :
        Contains(CharcodeRect(range, column_count, square, c), x, y)

\* C1: in every reachable state the selected code point is the none
\* sentinel -1 or lies within the current inclusive range [first, last].
C1_SelectionInRange ==
    selected = NoChar \/ (range[1] <= selected /\ selected <= range[2])

\* a selection was replaced by none because select got a code point
\* outside the range
C1_Witness ==
    /\ op.kind = "select"
    /\ ~(range[1] <= op.charcode /\ op.charcode <= range[2])
    /\ op.charcode # NoChar
    /\ prior # NoChar
    /\ selected = NoChar

\* C2: a click at a pixel that lies in the cell of no code point of the
\* range leaves the selection unchanged and emits no signal.
C2_ClickOutsideIgnored ==
    (op.kind = "click" /\ ~InSomeCell(op.x, op.y)) =>
        (selected = prior /\ emitted = <<>>)

\* C3: after select(c) the selection is c when c is in the range and none
\* otherwise, and characterSelected is emitted exactly when the stored
\* selection changed.
C3_SelectEmitsOnChange ==
    op.kind = "select" =>
        /\ selected = IF range[1] <= op.charcode /\ op.charcode <= range[2]
                      THEN op.charcode ELSE NoChar
        /\ (selected # prior) <=> (emitted = <<Selected(selected)>>)
        /\ (selected = prior) <=> (emitted = <<>>)

\* C4: a click at (x, y), x, y >= 0, in column col = x div square below the
\* column count with c = first + row * columnCount + col <= last: the
\* selection is c, characterSelected(c) is emitted if the selection was not
\* c before, characterClicked(c) is emitted unless the right button was
\* used.  In the scenario (range 65..90, 32 columns, square 24) a click at
\* (24, 0) selects 66 and emits both signals.
C4_ClickSelects ==
    /\ (/\ op.kind = "click"
        /\ op.x >= 0 /\ op.y >= 0
        /\ op.x \div square < column_count
        /\ range[1] + (op.y \div square) * column_count + (op.x \div square)
               <= range[2])
       => LET c == range[1] + (op.y \div square) * column_count
                            + (op.x \div square)
          IN  /\ selected = c
              /\ ~raised
              /\ emitted =
                    (IF prior # c THEN <<Selected(c)>> ELSE <<>>) \o
                    (IF op.button # "RightButton" THEN <<Clicked(c)>>
                                                  ELSE <<>>)
    /\ (/\ op.kind = "click"
        /\ range = ScenarioRange /\ column_count = 32 /\ square = 24
        /\ op.x = 24 /\ op.y = 0
        /\ op.button # "RightButton" /\ prior # 66)
       => (selected = 66 /\ emitted = <<Selected(66), Clicked(66)>>)

\* the scenario's click has happened with the middle button
C4_Witness ==
    /\ op = [kind |-> "click", x |-> 24, y |-> 0, button |-> "MidButton"]
    /\ range = ScenarioRange /\ column_count = 32 /\ square = 24
    /\ prior = NoChar
    /\ selected = 66
    /\ emitted = <<Selected(66), Clicked(66)>>

\* C5: the column count is at least 1 in every reachable state: it starts
\* at 32, setColumnCount(n) stores max(1, n), and no other operation
\* changes it.
C5_ColumnCount ==
    /\ [](column_count >= 1 /\ (op.kind = "init" => column_count = 32))
    /\ [][IF op'.kind = "setColumnCount"
          THEN column_count' = (IF op'.count <= 0 THEN 1 ELSE op'.count)
          ELSE column_count' = column_count]_vars

\* setColumnCount was called with a count below 1
C5_Witness ==
    /\ op.kind = "setColumnCount"
    /\ op.count <= 0
    /\ column_count = 1

(***************************************************************************)
(* View: the host application (documents, main window) as the code uses it.*)
(***************************************************************************)
\* what View.document returns when nothing matches and nothing was loaded
NoDoc == 0
\* url().toLocalFile() of an unnamed document, scratchdir without directory
NoFile == ""

\* The documents that can be open.  local: url().toLocalFile();
\* scratch: scratchdir(d).path() when scratchdir(d).directory() is set.
DocTable ==
    <<[local |-> "file.ly",    scratch |-> NoFile],
      [local |-> "other.ly",   scratch |-> NoFile],
      [local |-> NoFile,       scratch |-> "scratch.ly"],
      [local |-> "scratch.ly", scratch |-> NoFile]>>

AllDocs == DOMAIN DocTable

\* the file names links point to
Files == {"file.ly", "other.ly", "scratch.ly"}

\* the urls the script hands to the bridge: textedit links (file, line 10,
\* column 4), a textedit url without position, and a web url
Urls ==
    {<<"textedit", f, 10, 4>> : f \in Files} \cup {<<"textedit">>, <<"http">>}

\* textedit.link(url): the parsed link, or nothing when the url is not a
\* complete textedit url
NoLink == [filename |-> NoFile, line |-> 0, column |-> 0]

Link(u) ==
    IF u[1] = "textedit" /\ Len(u) = 4
    THEN [filename |-> u[2], line |-> u[3], column |-> u[4]]
    ELSE NoLink

\* the locations the viewer is asked to show; EmptyUrl is QUrl()
EmptyUrl == ""
SvgUrls == {"score.svg"}
Idle == "idle"

\* the test of the loop in View.document: (s.directory() and
\* equal_paths(filename, s.path())) or d.url().toLocalFile() == filename
Matches(d, filename) ==
    \/ DocTable[d].scratch # NoFile /\ filename = DocTable[d].scratch
    \/ DocTable[d].local = filename

\* the loop of View.document: the first open document that matches
FindDocument(docs, filename) ==
    IF \E i \in 1..Len(docs) : Matches(docs[i], filename)
    THEN docs[CHOOSE i \in 1..Len(docs) :
                 /\ Matches(docs[i], filename)
                 /\ \A j \in 1..(i - 1) : ~Matches(docs[j], filename)]
    ELSE NoDoc

\* app.openUrl(QUrl.fromLocalFile(filename)): the document of that file
NamedDoc(filename) == CHOOSE d \in AllDocs : DocTable[d].local = filename

\* View.document(filename, load).  opened: whether app.openUrl, if it is
\* called, hands back a document.  The result: the document (or NoDoc) and
\* app.documents afterwards.
Document(docs, filename, load, opened) ==
    LET found == FindDocument(docs, filename)
    IN  IF found # NoDoc
        THEN [doc |-> found, documents |-> docs]
        ELSE IF load /\ opened
        THEN [doc |-> NamedDoc(filename),
              documents |-> Append(docs, NamedDoc(filename))]
        ELSE [doc |-> NoDoc, documents |-> docs]

\* doTextEdit, line 170: the load argument given to self.document
LoadFlagAlways(setCursor) == TRUE

LoadFlag(setCursor) == setCursor

\* doTextEdit, line 178: highlight only in the active document
HighlightHere(cursors, doc, cur) == cursors /\ doc = cur

\* doTextEdit, lines 168-169 and 191: the value returned for the parsed
\* link t (NoLink: not a textedit link) and the document found for it
RecognizedIfDoc(t, doc) == t # NoLink /\ doc # NoDoc

Recognized(t, doc) == t # NoLink

\* a call on a collaborator (main window, highlighter, page frame, signal)
Call(name, arg) == [call |-> name, arg |-> arg]

\* the cursor built from the link in the document
CursorAt(doc, t) == [doc |-> doc, line |-> t.line, column |-> t.column]
NoCursor == [doc |-> NoDoc, line |-> 0, column |-> 0]

\* View.doTextEdit(url, setCursor) in the host state st.  opened: the
\* answer of app.openUrl; cursors: whether pointandclick.positions(cursor)
\* is non-empty.  The result: the host state afterwards, the calls made,
\* the value returned and the document the link resolved to.
DoTextEdit(st, u, setCursor, opened, cursors) ==
    LET t  == Link(u)
        r  == Document(st.documents, t.filename, LoadFlag(setCursor), opened)
        hl == HighlightHere(cursors, r.doc, st.current)
        none == [st |-> st, fx |-> <<>>, ret |-> Recognized(t, NoDoc),
                 doc |-> NoDoc]
    IN  IF t = NoLink THEN none
        ELSE IF r.doc = NoDoc
        THEN [none EXCEPT !.ret = Recognized(t, r.doc)]
        ELSE [st |-> [documents   |-> r.documents,
                      current     |-> IF setCursor THEN r.doc ELSE st.current,
                      highlighted |-> IF hl
                                      THEN st.highlighted \cup {st.current}
                                      ELSE st.highlighted,
                      textCursor  |-> IF setCursor THEN CursorAt(r.doc, t)
                                      ELSE st.textCursor],
              fx  |-> (IF hl THEN <<Call("highlight", st.current)>> ELSE <<>>)
                      \o
                      (IF setCursor
                       THEN <<Call("setTextCursor", CursorAt(r.doc, t)),
                              Call("blink_cursor", <<>>),
                              Call("setCurrentDocument", r.doc),
                              Call("activateWindow", <<>>),
                              Call("setFocus", <<>>)>>
                       ELSE <<>>),
              ret |-> Recognized(t, r.doc),
              doc |-> r.doc]

\* View.unHighlight: clears the highlight of the current view
UnHighlight(hl, cur) == hl \ {cur}

\* getJsScript(filename): the text of the script file
GetJsScript(filename) == <<filename>>

\* svgLoaded, lines 104-108: the code evaluated
JsCode ==
    GetJsScript("scripts/jquery-2.1.0.js") \o GetJsScript("pointandclick.js")
        \o GetJsScript("editsvg.js")

\* svgLoaded, line 100
ShouldInjectAlways(u) == TRUE

ShouldInject(u) == u # EmptyUrl

\* View.svgLoaded: the calls on the page's main frame
SvgLoaded(u) ==
    IF ShouldInject(u)
    THEN <<Call("addToJavaScriptWindowObject", <<"pyLinks">>),
           Call("evaluateJavaScript", JsCode)>>
    ELSE <<>>

HostState ==
    [documents |-> documents, current |-> current,
     highlighted |-> highlighted, textCursor |-> textCursor]

SetHost(st) ==
    /\ documents' = st.documents
    /\ current' = st.current
    /\ highlighted' = st.highlighted
    /\ textCursor' = st.textCursor

\* app.openUrl can hand back a new document while fewer than MaxDocs are open
CanOpen(opened) == opened => Len(documents) < MaxDocs

VInit ==
    /\ documents = <<1>>
    /\ current = 1
    /\ highlighted = {}
    /\ textCursor = NoCursor
    /\ url = EmptyUrl
    /\ requested = Idle
    /\ vop = [kind |-> "init"]
    /\ fx = <<>>
    /\ result = "None"
    /\ failed = FALSE

\* QWebView.load(url), as the SVG panel calls it for a file
load ==
    \E u \in SvgUrls :
        /\ UNCHANGED cmVars
        /\ requested' = u
        /\ vop' = [kind |-> "load", url |-> u]
        /\ fx' = <<>>
        /\ result' = "None"
        /\ failed' = FALSE
        /\ UNCHANGED <<hostVars, url>>

\* View.clear
clear ==
    /\ UNCHANGED cmVars
    /\ requested' = EmptyUrl
    /\ vop' = [kind |-> "clear"]
    /\ fx' = <<>>
    /\ result' = "None"
    /\ failed' = FALSE
    /\ UNCHANGED <<hostVars, url>>

\* the loadFinished(ok) signal and the svgLoaded slot connected to it.  A
\* load that failed leaves the page at the old or at the requested location.
loadFinished ==
    \E ok \in BOOLEAN, u \in {url, requested} :
        /\ UNCHANGED cmVars
        /\ requested # Idle
        /\ (ok \/ requested = EmptyUrl) => u = requested
        /\ url' = u
        /\ requested' = Idle
        /\ vop' = [kind |-> "loadFinished", ok |-> ok, requested |-> requested]
        /\ fx' = SvgLoaded(u)
        /\ result' = "None"
        /\ failed' = FALSE
        /\ UNCHANGED hostVars

\* JSLink.click
click ==
    \E u \in Urls, opened \in BOOLEAN, cursors \in BOOLEAN :
        /\ UNCHANGED cmVars
        /\ CanOpen(opened)
        /\ LET r == DoTextEdit(HostState, u, TRUE, opened, cursors)
           IN  /\ SetHost(r.st)
               /\ fx' = IF r.ret THEN r.fx
                                 ELSE Append(r.fx, Call("helpers.openUrl", u))
               /\ result' = r.ret
               /\ vop' = [kind |-> "click", url |-> u, doc |-> r.doc]
        /\ failed' = FALSE
        /\ UNCHANGED <<url, requested>>

\* JSLink.hover
hover ==
    \E u \in Urls, opened \in BOOLEAN, cursors \in BOOLEAN :
        /\ UNCHANGED cmVars
        /\ CanOpen(opened)
        /\ LET r == DoTextEdit(HostState, u, FALSE, opened, cursors)
           IN  /\ SetHost(r.st)
               /\ fx' = r.fx
               /\ result' = r.ret
               /\ vop' = [kind |-> "hover", url |-> u, doc |-> r.doc]
        /\ failed' = FALSE
        /\ UNCHANGED <<url, requested>>

\* JSLink.leave
leave ==
    \E u \in Urls :
        /\ UNCHANGED cmVars
        /\ highlighted' = UnHighlight(highlighted, current)
        /\ vop' = [kind |-> "leave", url |-> u]
        /\ fx' = <<Call("clear", current)>>
        /\ result' = "None"
        /\ failed' = FALSE
        /\ UNCHANGED <<documents, current, textCursor, url, requested>>

\* JSLink.dragElement -> View.dragElement.  cursor is bound only inside
\* "if doc:", so emitCursor(cursor) raises UnboundLocalError without a
\* document.
dragElement ==
    \E u \in Urls, opened \in BOOLEAN :
        /\ UNCHANGED cmVars
        /\ CanOpen(opened)
        /\ LET t == Link(u)
               r == Document(documents, t.filename, TRUE, opened)
           IN  IF t = NoLink
               THEN /\ result' = FALSE
                    /\ fx' = <<>>
                    /\ failed' = FALSE
                    /\ vop' = [kind |-> "dragElement", url |-> u, doc |-> NoDoc]
                    /\ UNCHANGED documents
               ELSE /\ result' = "None"
                    /\ documents' = r.documents
                    /\ fx' = IF r.doc # NoDoc
                             THEN <<Call("cursor.emit", CursorAt(r.doc, t))>>
                             ELSE <<>>
                    /\ failed' = (r.doc = NoDoc)
                    /\ vop' = [kind |-> "dragElement", url |-> u, doc |-> r.doc]
        /\ UNCHANGED <<current, highlighted, textCursor, url, requested>>

\* the user opens a document in the editor; it becomes the current one
hostOpenDocument ==
    \E d \in AllDocs :
        /\ UNCHANGED cmVars
        /\ Len(documents) < MaxDocs
        /\ \A i \in 1..Len(documents) : documents[i] # d
        /\ documents' = Append(documents, d)
        /\ current' = d
        /\ vop' = [kind |-> "hostOpenDocument", doc |-> d]
        /\ fx' = <<>>
        /\ result' = "None"
        /\ failed' = FALSE
        /\ UNCHANGED <<highlighted, textCursor, url, requested>>

\* the user switches to another open document
hostSetCurrentDocument ==
    \E i \in 1..Len(documents) :
        /\ UNCHANGED cmVars
        /\ documents[i] # current
        /\ current' = documents[i]
        /\ vop' = [kind |-> "hostSetCurrentDocument", doc |-> documents[i]]
        /\ fx' = <<>>
        /\ result' = "None"
        /\ failed' = FALSE
        /\ UNCHANGED <<documents, highlighted, textCursor, url, requested>>

VNext ==
    \/ load
    \/ clear
    \/ loadFinished
    \/ click
    \/ hover
    \/ leave
    \/ dragElement
    \/ hostOpenDocument
    \/ hostSetCurrentDocument

(***************************************************************************)
(* View: the properties.                                                   *)
(***************************************************************************)
\* the names of the calls in a sequence of calls
Calls(calls) == {calls[i].call : i \in DOMAIN calls}

\* the calls of one script injection: the bridge object, then the three
\* scripts in order in one evaluation
Injection ==
    <<[call |-> "addToJavaScriptWindowObject", arg |-> <<"pyLinks">>],
      [call |-> "evaluateJavaScript",
       arg  |-> <<"scripts/jquery-2.1.0.js", "pointandclick.js",
                  "editsvg.js">>]>>

InjectionCalls == {"addToJavaScriptWindowObject", "evaluateJavaScript"}

\* C6: handling a recognized text-edit link on hover opens no document,
\* moves no cursor, changes no current document, makes no call but a
\* highlight, highlights only when the target is the active document, and
\* reports the link as recognized; for a target that is not the active
\* document it changes no host state at all.
C6_HoverFrame ==
    [][(vop'.kind = "hover" /\ Link(vop'.url) # NoLink) =>
          /\ documents' = documents
          /\ current' = current
          /\ textCursor' = textCursor
          /\ Calls(fx') \subseteq {"highlight"}
          /\ (highlighted' # highlighted \/ fx' # <<>>) =>
                 (vop'.doc # NoDoc /\ vop'.doc = current)
          /\ highlighted' \subseteq highlighted \cup {current}
          /\ result' = TRUE
          /\ ~failed'
          /\ vop'.doc # current =>
                 (UNCHANGED hostVars /\ fx' = <<>>)]_vars

\* a link into an open document that is not the active one was hovered
C6_Witness ==
    /\ vop.kind = "hover"
    /\ vop.url = <<"textedit", "file.ly", 10, 4>>
    /\ vop.doc = 1
    /\ current # 1
    /\ result = TRUE
    /\ fx = <<>>

\* C7: click(url) opens the url externally if and only if the url is not
\* parsed as a text-edit link; for an unparsable url that is all it does,
\* and a parsed link is never opened externally, resolved or not.
C7_ClickExternal ==
    [][vop'.kind = "click" =>
          /\ ("helpers.openUrl" \in Calls(fx')) <=> (Link(vop'.url) = NoLink)
          /\ Link(vop'.url) = NoLink =>
                 /\ UNCHANGED hostVars
                 /\ fx' = <<[call |-> "helpers.openUrl", arg |-> vop'.url]>>
                 /\ result' = FALSE]_vars

\* a parsed link whose document could not be resolved was clicked
C7_Witness ==
    /\ vop.kind = "click"
    /\ Link(vop.url) # NoLink
    /\ vop.doc = NoDoc
    /\ result = TRUE
    /\ fx = <<>>

\* C8: when the target document of a parsed text-edit link cannot be
\* resolved, click, hover and dragElement are no-ops: no error is raised,
\* no call is made, no signal is emitted and the host state is unchanged.
C8_UnresolvedNoOp ==
    [][(/\ vop'.kind \in {"click", "hover", "dragElement"}
        /\ Link(vop'.url) # NoLink
        /\ vop'.doc = NoDoc) =>
          (~failed' /\ fx' = <<>> /\ UNCHANGED hostVars)]_vars

\* C9: scripts are injected only by a load that finished successfully for
\* a non-empty location; every injection registers the bridge object and
\* then evaluates the three scripts in order, once.
C9_InjectOnlyOnSuccess ==
    /\ vop.kind = "loadFinished" =>
          fx = IF vop.ok /\ vop.requested # EmptyUrl THEN Injection ELSE <<>>
    /\ vop.kind # "loadFinished" => Calls(fx) \cap InjectionCalls = {}

\* C9, amended: scripts are injected by every finished load that leaves the
\* view at a non-empty location, whether it reports success or failure; a
\* finished load of the empty location (after clear()) injects nothing;
\* every injection registers the bridge object and then evaluates the three
\* scripts in order, once.
C9_InjectOnNonEmpty ==
    /\ vop.kind = "loadFinished" =>
          /\ fx = IF url # EmptyUrl THEN Injection ELSE <<>>
          /\ vop.requested = EmptyUrl => fx = <<>>
    /\ vop.kind # "loadFinished" => Calls(fx) \cap InjectionCalls = {}

\* a load that failed has injected the scripts
C9_Witness ==
    /\ vop.kind = "loadFinished"
    /\ ~vop.ok
    /\ url # EmptyUrl
    /\ fx = Injection

\* C10: after leave no editor view carries the viewer's highlight.
C10_LeaveClearsAll == vop.kind = "leave" => highlighted = {}


Init == CMInit /\ VInit

SpecCharMap == Init /\ [][CMNext]_vars

SpecView == Init /\ [][VNext]_vars

=============================================================================
